---------------------------- MODULE Spec2Model ----------------------------
(***************************************************************************)
(* Model of the reminder-dispatch core of nudgeme-ai:                      *)
(*   app/reminder_state.py   ReminderStateStore (dedup state + JSON file)  *)
(*   app/reminder_engine.py  ReminderEngine (start / stop / _tick)         *)
(*   app/main.py             startup_event (container construction)        *)
(* Time is counted in minutes.  The Calendar Source, the Notifier, the     *)
(* file system and the process lifetime are the environment: each of their *)
(* outcomes is a nondeterministic choice.                                  *)
(***************************************************************************)
EXTENDS Integers, Sequences, FiniteSets, TLC

(***************************************************************************)
(* Bounds of the model.                                                    *)
(***************************************************************************)
MaxFires    == 2   \* interval firings of the polling job
MaxFaults   == 1   \* injected failures (fetch, send, persist, kill)
MaxUpdates  == 1   \* version changes made by the Calendar Source
MaxCounted  == 2   \* successful sends counted per (event, kind, version)

(***************************************************************************)
(* Program constants.                                                      *)
(***************************************************************************)
MaxInstances   == 1     \* add_job(..., max_instances=1)
TwoHours       == 120   \* timedelta(hours=2)
TenMinutes     == 10    \* timedelta(minutes=10)
HorizonMinutes == 60    \* timedelta(hours=1)

\* The reminder schedule of _tick, in the order the list literal gives it.
Reminders ==
    << [kind |-> "2h",  delta |-> TwoHours],
       [kind |-> "10m", delta |-> TenMinutes] >>

Kinds == {"2h", "10m"}

\* Python's str ordering of the kinds, used by list.sort(): "10m" < "2h".
KindRank(k) == IF k = "10m" THEN 1 ELSE 2

(***************************************************************************)
(* The environment's data: two calendar events and the instants at which   *)
(* the clock is observed.                                                  *)
(***************************************************************************)
Events   == {"e1", "e2"}
Instants == {10, 120, 210}
Stamps   == {1, 2}              \* values of the "updated" timestamp

\* datetime.isoformat(): the version token is the text of the timestamp.
isoformat(dt) == ToString(dt)

\* Optional[datetime]: <<>> is None, <<t>> is a value.
UpdatedAts == {<<>>} \cup {<<s>> : s \in Stamps}

VARIABLES
    clock,          \* the wall clock
    calendar,       \* what the Calendar Source holds: id -> event fields
    up,             \* the process runs and its ServiceContainer exists
    state,          \* ReminderStateStore._state
    file,           \* the file at ReminderStateStore.path
    running,        \* ReminderEngine._running
    scheduler,      \* the BackgroundScheduler: its state and its jobs
    ticks,          \* the executions of _tick in progress: the position, events and
                    \* now of each, with the history of its Notifier calls (calls)
                    \* and the mapping it found when it fetched (seen)
    delivered,      \* history: successful Notifier sends per (event, kind, version)
    lastPersisted,  \* history: the mapping written by the last successful _persist
    before,         \* history: the mapping before the last call of mark_sent or clear_event
    last,           \* history: what the last step of the program did
    budget          \* counters that bound the model

vars == << clock, calendar, up, state, file, running, scheduler, ticks,
           delivered, lastPersisted, before, last, budget >>


(***************************************************************************)
(* ReminderStateStore (app/reminder_state.py).  A mapping is a function    *)
(* from the event ids that have a record to records                        *)
(* [sent : sequence of kinds, last_updated : version token].               *)
(***************************************************************************)
EmptyMapping == [e \in {} |-> [sent |-> <<>>, last_updated |-> ""]]

Contains(seq, x) == \E n \in 1..Len(seq) : seq[n] = x

Put(st, key, rec) == [x \in (DOMAIN st) \cup {key} |-> IF x = key THEN rec ELSE st[x]]

Pop(st, key) == [x \in (DOMAIN st) \ {key} |-> st[x]]

\* list.sort() on a list of kinds: ascending str order, duplicates kept.
Sorted(seq) ==
    SelectSeq(seq, LAMBDA x : KindRank(x) = 1) \o SelectSeq(seq, LAMBDA x : KindRank(x) = 2)

\* json.dump(self._state, handle): the document's members, one per event id,
\* each the pair of the key and its object.
json_dump(st) == { <<e, st[e].sent, st[e].last_updated>> : e \in DOMAIN st }

\* json.load(handle) of a complete document.
json_load(doc) ==
    [e \in { m[1] : m \in doc } |->
        LET m == CHOOSE x \in doc : x[1] = e
        IN  [sent |-> m[2], last_updated |-> m[3]]]

\* The file: absent, a complete JSON document, or the remains of a write that
\* did not finish (open(path, "w") has truncated the old content and the new
\* document is not all there).
NoFile        == [exists |-> FALSE, complete |-> FALSE, doc |-> {}]
TruncatedFile == [exists |-> TRUE,  complete |-> FALSE, doc |-> {}]
CompleteFile(st) == [exists |-> TRUE, complete |-> TRUE, doc |-> json_dump(st)]

\* How a call of _persist can end:
\*   "ok"           the document is written and the file closed;
\*   "open_failed"  open(path, "w") raises, nothing is touched;
\*   "write_failed" open() has truncated the file and json.dump or the close raises;
\*   "killed"       the process dies between the truncation and the end of the write.
PersistOutcomes == {"ok", "open_failed", "write_failed", "killed"}

\* ReminderStateStore._persist: the file it leaves.
WriteFile(f, st, outcome) ==
    CASE outcome = "ok"          -> CompleteFile(st)
      [] outcome = "open_failed" -> f
      [] OTHER                   -> TruncatedFile

\* ReminderStateStore._load on an existing or absent file; a truncated file
\* makes json.load raise (LoadRaises) and no store is constructed.
LoadRaises(f) == f.exists /\ ~f.complete

\* _load whose result is overwritten by the initial empty dict.
LoadFile_StartsEmpty(f) == EmptyMapping

LoadFile(f) == IF ~f.exists THEN EmptyMapping ELSE json_load(f.doc)

\* has_sent without the comparison of the version token.
HasSentIn_IgnoresVersion(st, event_id, reminder_type, last_updated) ==
    IF event_id \notin DOMAIN st THEN FALSE
    ELSE Contains(st[event_id].sent, reminder_type)

\* ReminderStateStore.has_sent, on a given mapping.
HasSentIn(st, event_id, reminder_type, last_updated) ==
    IF event_id \notin DOMAIN st THEN FALSE
    ELSE IF st[event_id].last_updated # last_updated THEN FALSE
    ELSE Contains(st[event_id].sent, reminder_type)

has_sent(event_id, reminder_type, last_updated) ==
    HasSentIn(state, event_id, reminder_type, last_updated)

\* The mapping has_sent leaves: it reads with dict.get, which inserts nothing.
HasSentMem(st, event_id, reminder_type, last_updated) == st

\* mark_sent that resets a stale record's sent list and keeps its old token.
MarkSentMem_KeepsVersion(st, event_id, reminder_type, last_updated) ==
    LET st1 == IF event_id \in DOMAIN st THEN st
               ELSE Put(st, event_id, [sent |-> <<>>, last_updated |-> last_updated])
        es1 == st1[event_id]
        es2 == IF es1.last_updated # last_updated
               THEN [es1 EXCEPT !.sent = <<>>]
               ELSE es1
        es3 == IF ~Contains(es2.sent, reminder_type)
               THEN [es2 EXCEPT !.sent = Sorted(Append(@, reminder_type))]
               ELSE es2
    IN  Put(st1, event_id, es3)

\* mark_sent without the reset of a stale record's sent list.
MarkSentMem_KeepsSent(st, event_id, reminder_type, last_updated) ==
    LET st1 == IF event_id \in DOMAIN st THEN st
               ELSE Put(st, event_id, [sent |-> <<>>, last_updated |-> last_updated])
        es2 == [st1[event_id] EXCEPT !.last_updated = last_updated]
        es3 == IF ~Contains(es2.sent, reminder_type)
               THEN [es2 EXCEPT !.sent = Sorted(Append(@, reminder_type))]
               ELSE es2
    IN  Put(st1, event_id, es3)

\* mark_sent that, on a version change, starts the whole mapping afresh.
MarkSentMem_ClearsOthers(st, event_id, reminder_type, last_updated) ==
    LET st1 == IF event_id \in DOMAIN st THEN st
               ELSE Put(st, event_id, [sent |-> <<>>, last_updated |-> last_updated])
        es1 == st1[event_id]
        st2 == IF es1.last_updated # last_updated THEN EmptyMapping ELSE st1
        es2 == IF es1.last_updated # last_updated
               THEN [sent |-> <<>>, last_updated |-> last_updated]
               ELSE es1
        es3 == IF ~Contains(es2.sent, reminder_type)
               THEN [es2 EXCEPT !.sent = Sorted(Append(@, reminder_type))]
               ELSE es2
    IN  Put(st2, event_id, es3)

\* mark_sent that appends the kind without looking whether it is in the list.
MarkSentMem_AppendsAgain(st, event_id, reminder_type, last_updated) ==
    LET st1 == IF event_id \in DOMAIN st THEN st
               ELSE Put(st, event_id, [sent |-> <<>>, last_updated |-> last_updated])
        es1 == st1[event_id]
        es2 == IF es1.last_updated # last_updated
               THEN [sent |-> <<>>, last_updated |-> last_updated]
               ELSE es1
        es3 == [es2 EXCEPT !.sent = Sorted(Append(@, reminder_type))]
    IN  Put(st1, event_id, es3)

\* mark_sent that returns after the reset of a stale record.
MarkSentMem_ResetOnly(st, event_id, reminder_type, last_updated) ==
    LET st1 == IF event_id \in DOMAIN st THEN st
               ELSE Put(st, event_id, [sent |-> <<>>, last_updated |-> last_updated])
        es1 == st1[event_id]
        es3 == IF es1.last_updated # last_updated
               THEN [sent |-> <<>>, last_updated |-> last_updated]
               ELSE IF ~Contains(es1.sent, reminder_type)
               THEN [es1 EXCEPT !.sent = Sorted(Append(@, reminder_type))]
               ELSE es1
    IN  Put(st1, event_id, es3)

\* ReminderStateStore.mark_sent up to (not including) self._persist():
\* the mapping it leaves in memory.
MarkSentMem(st, event_id, reminder_type, last_updated) ==
    LET st1 == IF event_id \in DOMAIN st THEN st
               ELSE Put(st, event_id, [sent |-> <<>>, last_updated |-> last_updated])
        es1 == st1[event_id]
        es2 == IF es1.last_updated # last_updated
               THEN [sent |-> <<>>, last_updated |-> last_updated]
               ELSE es1
        es3 == IF ~Contains(es2.sent, reminder_type)
               THEN [es2 EXCEPT !.sent = Sorted(Append(@, reminder_type))]
               ELSE es2
    IN  Put(st1, event_id, es3)

(***************************************************************************)
(* The Calendar Source.  An event carries the fields of EventResponse that *)
(* _tick reads; tz tells whether start_time and end_time carry tzinfo      *)
(* ("aware"), carry none and the event's timezone name is known to         *)
(* zoneinfo ("naive"), or carry none and the name is unknown               *)
(* ("naive_badzone").                                                      *)
(***************************************************************************)
Calendars ==
    { [e \in Events |->
          IF e = "e1"
          THEN [start_time |-> 130, end_time |-> 140, tz |-> z, updated_at |-> <<1>>]
          ELSE [start_time |-> 140, end_time |-> 150, tz |-> "aware", updated_at |-> <<>>]]
      : z \in {"aware", "naive", "naive_badzone"} }

VersionKeys ==
    { isoformat(s) : s \in Stamps } \cup { isoformat(130), isoformat(140) }

SendKeys == Events \X Kinds \X VersionKeys

\* The sequences that list each element of S once.
Listings(S) ==
    { q \in [1..Cardinality(S) -> S] : \A a, b \in 1..Cardinality(S) : a # b => q[a] # q[b] }

\* GoogleCalendarClient.list_upcoming when the source answers with the events
\* of S: orderBy="startTime", each item normalised to an EventResponse.
list_upcoming(S) ==
    LET q == CHOOSE x \in Listings(S) :
                \A a, b \in 1..Cardinality(S) :
                    a < b => calendar[x[a]].start_time <= calendar[x[b]].start_time
    IN  [n \in 1..Cardinality(S) |->
            [id         |-> q[n],
             start_time |-> calendar[q[n]].start_time,
             end_time   |-> calendar[q[n]].end_time,
             tz         |-> calendar[q[n]].tz,
             updated_at |-> calendar[q[n]].updated_at]]

\* updated_key = (event.updated_at or event.start_time).isoformat()
updated_key(event) ==
    IF event.updated_at = <<>> THEN isoformat(event.start_time)
    ELSE isoformat(event.updated_at[1])

\* trigger_at of a reminder: start - timedelta(...)
trigger_at(event, reminder) == event.start_time - reminder.delta

\* horizon = now - timedelta(hours=1)
horizon(now) == now - HorizonMinutes

(***************************************************************************)
(* The scheduler of the engine and the history variables.                  *)
(***************************************************************************)
NewScheduler == [state |-> "stopped", jobs |-> 0]

Step(op, id, kind, key) == [op |-> op, id |-> id, kind |-> kind, key |-> key]

Spend(field) == [budget EXCEPT ![field] = @ + 1]

\* The count of successful sends after one more; the history stops counting
\* at MaxCounted.
Counted(c) == IF c < MaxCounted THEN c + 1 ELSE c

Init ==
    /\ clock = 10
    /\ calendar \in Calendars
    /\ up = FALSE
    /\ state = EmptyMapping
    /\ file = NoFile
    /\ running = FALSE
    /\ scheduler = NewScheduler
    /\ ticks = <<>>
    /\ delivered = [t \in SendKeys |-> 0]
    /\ lastPersisted = EmptyMapping
    /\ before = EmptyMapping
    /\ last = Step("init", "", "", "")
    /\ budget = [fires |-> 0, faults |-> 0, updates |-> 0]

(***************************************************************************)
(* The environment.  _tick reads the clock and the calendar only in its    *)
(* first lines (50-56), so a change of either while an execution is in its *)
(* loops is seen by no step of that execution: it is taken after the       *)
(* execution has ended.                                                    *)
(***************************************************************************)
InLoops == \E n \in 1..Len(ticks) : ticks[n].pc # "fetch"

ClockAdvance ==
    /\ ~InLoops
    /\ \E t \in Instants : t > clock /\ clock' = t
    /\ UNCHANGED << calendar, up, state, file, running, scheduler, ticks,
                    delivered, lastPersisted, before, last, budget >>

\* The event is edited in the calendar: its "updated" timestamp, the time of
\* the last modification, moves to a later value.
CalendarUpdate ==
    /\ ~InLoops
    /\ budget.updates < MaxUpdates
    /\ \E e \in Events, s \in Stamps :
          /\ IF calendar[e].updated_at = <<>> THEN TRUE ELSE calendar[e].updated_at[1] < s
          /\ calendar' = [calendar EXCEPT ![e].updated_at = <<s>>]
    /\ budget' = Spend("updates")
    /\ UNCHANGED << clock, up, state, file, running, scheduler, ticks,
                    delivered, lastPersisted, before, last >>

\* What the death of the process leaves: nothing in memory, the file f.
Dies(f) ==
    /\ up' = FALSE
    /\ state' = EmptyMapping
    /\ running' = FALSE
    /\ scheduler' = NewScheduler
    /\ ticks' = <<>>
    /\ file' = f

\* The process is killed while no write of the file is under way.
Kill ==
    /\ up
    /\ budget.faults < MaxFaults
    /\ budget' = Spend("faults")
    /\ Dies(file)
    /\ last' = Step("kill", "", "", "")
    /\ UNCHANGED << clock, calendar, delivered, lastPersisted, before >>

(***************************************************************************)
(* Process start: main.startup_event builds the ServiceContainer (the      *)
(* store loads its file, the engine is constructed stopped) and calls      *)
(* reminder_engine.start().  When _load raises no container exists.        *)
(***************************************************************************)
\* start without the test of _running.
start_Unguarded(r, sch) ==
    << TRUE, [sch EXCEPT !.jobs = @ + 1, !.state = "running"] >>

\* ReminderEngine.start on an engine whose _running is r and whose scheduler
\* is sch: the pair of _running and the scheduler it leaves.
start(r, sch) ==
    IF r
    THEN << r, sch >>
    ELSE << TRUE, [sch EXCEPT !.jobs = @ + 1, !.state = "running"] >>

\* stop that clears _running and leaves the scheduler as it is.
stop_KeepsScheduler(r, sch) ==
    IF r
    THEN << FALSE, sch >>
    ELSE << r, sch >>

\* ReminderEngine.stop, likewise: scheduler.shutdown(wait=False) stops the
\* scheduler and empties its job store.
stop(r, sch) ==
    IF r
    THEN << FALSE, [state |-> "stopped", jobs |-> 0] >>
    ELSE << r, sch >>

\* BackgroundScheduler.shutdown raises SchedulerNotRunningError on a scheduler
\* that is not running.
ShutdownRaises(sch) == sch.state # "running"

\* stop without the test of _running.
StopRaises_Unguarded(r, sch) == ShutdownRaises(sch)

\* Whether ReminderEngine.stop raises: it calls shutdown only when _running.
StopRaises(r, sch) == r /\ ShutdownRaises(sch)

Startup ==
    /\ ~up
    /\ IF LoadRaises(file)
       THEN /\ last' = Step("load_failed", "", "", "")
            /\ UNCHANGED << up, state, running, scheduler >>
       ELSE /\ up' = TRUE
            /\ state' = LoadFile(file)
            /\ running' = start(FALSE, NewScheduler)[1]
            /\ scheduler' = start(FALSE, NewScheduler)[2]
            /\ last' = Step("startup", "", "", "")
    /\ UNCHANGED << clock, calendar, file, ticks, delivered, lastPersisted, before, budget >>

\* A further call of reminder_engine.start().  The program stops its engine
\* only in main.shutdown_event, on its way out: no call of start() follows a
\* call of stop() on the same engine.
Start ==
    /\ up
    /\ running
    /\ running' = start(running, scheduler)[1]
    /\ scheduler' = start(running, scheduler)[2]
    /\ UNCHANGED << clock, calendar, up, state, file, ticks, delivered,
                    lastPersisted, before, last, budget >>

\* A call of reminder_engine.stop(); an execution of _tick in flight goes on.
Stop ==
    /\ up
    /\ running' = stop(running, scheduler)[1]
    /\ scheduler' = stop(running, scheduler)[2]
    /\ UNCHANGED << clock, calendar, up, state, file, ticks, delivered,
                    lastPersisted, before, last, budget >>

(***************************************************************************)
(* The polling job: add_job(self._tick, "interval", minutes=1,             *)
(* id="reminder-poll", max_instances=1).  When the interval fires the      *)
(* scheduler submits the job to its pool unless max_instances executions   *)
(* of it are in progress.                                                  *)
(***************************************************************************)
NewTick ==
    [pc |-> "fetch", events |-> <<>>, now |-> 0, i |-> 1, j |-> 1,
     calls |-> <<>>, seen |-> EmptyMapping]

\* max_instances compared off by one.
MaySubmit_OffByOne(inProgress) == inProgress <= MaxInstances

\* Whether a firing of the job may start another execution.
MaySubmit(inProgress) == inProgress < MaxInstances

\* The interval of the job has elapsed on a running scheduler.
Fires ==
    /\ up
    /\ scheduler.state = "running"
    /\ scheduler.jobs > 0
    /\ IF MaySubmit(Len(ticks))
       THEN /\ ticks' = Append(ticks, NewTick)
            /\ last' = Step("tick_started", "", "", "")
       ELSE /\ last' = Step("skipped", "", "", "")
            /\ UNCHANGED ticks
    /\ UNCHANGED << clock, calendar, up, state, file, running, scheduler,
                    delivered, lastPersisted, before >>

IntervalFire ==
    /\ budget.fires < MaxFires
    /\ budget' = Spend("fires")
    /\ Fires

RemoveAt(seq, n) == [m \in 1..(Len(seq) - 1) |-> IF m < n THEN seq[m] ELSE seq[m + 1]]

\* A for loop of _tick that has run out of events: the reminder loop gives
\* way to the cleanup loop, the cleanup loop to the end of the function.
LoopExit(c) ==
    LET c1 == IF c.pc = "remind" /\ c.i > Len(c.events)
              THEN [c EXCEPT !.pc = "cleanup", !.i = 1, !.j = 1]
              ELSE c
    IN  IF c1.pc = "cleanup" /\ c1.i > Len(c1.events)
        THEN [c1 EXCEPT !.pc = "done"]
        ELSE c1

\* The position of _tick after the current loop iteration: the next reminder
\* of the event, the next event, the cleanup loop, the end of the function.
NextPosition(c) ==
    LoopExit(IF c.pc = "remind"
             THEN IF c.j < Len(Reminders)
                  THEN [c EXCEPT !.j = c.j + 1]
                  ELSE [c EXCEPT !.i = c.i + 1, !.j = 1]
             ELSE [c EXCEPT !.i = c.i + 1])

\* The executions in progress once execution n has moved to position c.
Moved(n, c) == IF c.pc = "done" THEN RemoveAt(ticks, n) ELSE [ticks EXCEPT ![n] = c]

Continue(n) == ticks' = Moved(n, NextPosition(ticks[n]))

\* Execution c with a call of sms.send_message added to its history.
Called(c, id, kind, ok) ==
    [c EXCEPT !.calls = Append(@, [id |-> id, kind |-> kind, ok |-> ok])]

\* The loop goes on after send_message has been called.
ContinueCalled(n, id, kind, ok) ==
    ticks' = Moved(n, NextPosition(Called(ticks[n], id, kind, ok)))

\* An exception leaves _tick: the execution is over (the scheduler logs it).
Raise(n) == ticks' = RemoveAt(ticks, n)

\* ReminderStateStore.mark_sent, whose _persist ends with the given outcome.
mark_sent(event_id, reminder_type, last_updated, outcome) ==
    /\ before' = state
    /\ state' = MarkSentMem(state, event_id, reminder_type, last_updated)
    /\ file' = WriteFile(file, state', outcome)
    /\ lastPersisted' = IF outcome = "ok" THEN state' ELSE lastPersisted

\* clear_event that calls _persist whether or not it found a record.
clear_event_PersistsAlways(event_id, outcome) ==
    /\ before' = state
    /\ state' = Pop(state, event_id)
    /\ file' = WriteFile(file, state', outcome)
    /\ lastPersisted' = IF outcome = "ok" THEN state' ELSE lastPersisted

\* ReminderStateStore.clear_event, likewise; without a record _persist is not called.
clear_event(event_id, outcome) ==
    IF event_id \in DOMAIN state
    THEN /\ before' = state
         /\ state' = Pop(state, event_id)
         /\ file' = WriteFile(file, state', outcome)
         /\ lastPersisted' = IF outcome = "ok" THEN state' ELSE lastPersisted
    ELSE /\ before' = state
         /\ UNCHANGED << state, file, lastPersisted >>

\* A call of _persist that raises; that, or the death of the process, is a fault.
PersistRaises(outcome) == outcome \in {"open_failed", "write_failed"}

Fault == budget.faults < MaxFaults /\ budget' = Spend("faults")

\* A failed fetch that is taken for an empty calendar and drops every record.
FetchFails_DropsRecords(n) ==
    /\ ticks[n].pc = "fetch"
    /\ Fault
    /\ ticks' = RemoveAt(ticks, n)
    /\ last' = Step("fetch_failed", "", "", "")
    /\ state' = EmptyMapping
    /\ UNCHANGED << clock, calendar, up, file, running, scheduler,
                    delivered, lastPersisted, before >>

\* _tick, lines 50-54: list_upcoming raises, the tick returns.
FetchFails(n) ==
    /\ ticks[n].pc = "fetch"
    /\ Fault
    /\ ticks' = RemoveAt(ticks, n)
    /\ last' = Step("fetch_failed", "", "", "")
    /\ UNCHANGED << clock, calendar, up, state, file, running, scheduler,
                    delivered, lastPersisted, before >>

\* _tick, lines 51 and 56: the source answers with the events of S, the clock is read.
\* Answers is the set of answers the source may give.
FetchesFrom(n, Answers) ==
    /\ ticks[n].pc = "fetch"
    /\ \E S \in Answers :
          ticks' = Moved(n, LoopExit(
              [pc |-> "remind", events |-> list_upcoming(S), now |-> clock,
               i |-> 1, j |-> 1, calls |-> <<>>, seen |-> state]))
    /\ last' = Step("fetched", "", "", "")
    /\ UNCHANGED << clock, calendar, up, state, file, running, scheduler,
                    delivered, lastPersisted, before, budget >>

Fetches(n) == FetchesFrom(n, SUBSET Events)

Fetch(n) == FetchFails(n) \/ Fetches(n)

\* _tick, line 67: the condition under which a reminder is sent.
Due(now, event, reminder) ==
    /\ now >= trigger_at(event, reminder)
    /\ ~has_sent(event.id, reminder.kind, updated_key(event))

\* The comparison of line 78 made with now in the place of the horizon.
Expired_IgnoresHorizon(now, event) == event.end_time < now

\* _tick, line 78: the condition under which an event's record is cleared.
Expired(now, event) == event.end_time < horizon(now)

\* The event and the reminder execution n is at.
EventAt(n) == ticks[n].events[ticks[n].i]

ReminderAt(n) == Reminders[ticks[n].j]

\* _tick, line 60: ZoneInfo(event.timezone) raises and nothing catches it.
ZoneError(n) ==
    /\ ticks[n].pc = "remind"
    /\ EventAt(n).tz = "naive_badzone"
    /\ Raise(n)
    /\ last' = Step("zone_error", EventAt(n).id, "", "")
    /\ UNCHANGED << clock, calendar, up, state, file, running, scheduler,
                    delivered, lastPersisted, before, budget >>

\* _tick, line 67 is false: nothing is sent.
NotDue(n) ==
    /\ ticks[n].pc = "remind"
    /\ EventAt(n).tz # "naive_badzone"
    /\ ~Due(ticks[n].now, EventAt(n), ReminderAt(n))
    /\ Continue(n)
    /\ last' = Step("not_due", EventAt(n).id, ReminderAt(n).kind, updated_key(EventAt(n)))
    /\ UNCHANGED << clock, calendar, up, state, file, running, scheduler,
                    delivered, lastPersisted, before, budget >>

\* mark_sent placed after the try block, so that it runs when the send raised.
SendFails_MarksAnyway(n) ==
    /\ ticks[n].pc = "remind"
    /\ EventAt(n).tz # "naive_badzone"
    /\ Due(ticks[n].now, EventAt(n), ReminderAt(n))
    /\ Fault
    /\ mark_sent(EventAt(n).id, ReminderAt(n).kind, updated_key(EventAt(n)), "ok")
    /\ ContinueCalled(n, EventAt(n).id, ReminderAt(n).kind, FALSE)
    /\ last' = Step("send_failed", EventAt(n).id, ReminderAt(n).kind, updated_key(EventAt(n)))
    /\ UNCHANGED << clock, calendar, up, running, scheduler, delivered >>

\* _tick, lines 70 and 72-73: send_message raises, the failure is logged.
SendFails(n) ==
    /\ ticks[n].pc = "remind"
    /\ EventAt(n).tz # "naive_badzone"
    /\ Due(ticks[n].now, EventAt(n), ReminderAt(n))
    /\ Fault
    /\ ContinueCalled(n, EventAt(n).id, ReminderAt(n).kind, FALSE)
    /\ last' = Step("send_failed", EventAt(n).id, ReminderAt(n).kind, updated_key(EventAt(n)))
    /\ UNCHANGED << clock, calendar, up, state, file, running, scheduler,
                    delivered, lastPersisted, before >>

\* _tick, lines 70-73: send_message returns and mark_sent is called; when
\* mark_sent raises, the failure is logged at line 73 and the loop goes on.
SendsAndMarks(n) ==
    /\ ticks[n].pc = "remind"
    /\ EventAt(n).tz # "naive_badzone"
    /\ Due(ticks[n].now, EventAt(n), ReminderAt(n))
    /\ LET id   == EventAt(n).id
           kind == ReminderAt(n).kind
           key  == updated_key(EventAt(n))
       IN  /\ delivered' = [delivered EXCEPT ![<<id, kind, key>>] = Counted(@)]
           /\ \E outcome \in PersistOutcomes :
                 \/ /\ outcome = "ok"
                    /\ mark_sent(id, kind, key, outcome)
                    /\ ContinueCalled(n, id, kind, TRUE)
                    /\ last' = Step("marked", id, kind, key)
                    /\ UNCHANGED << up, running, scheduler, budget >>
                 \/ /\ PersistRaises(outcome)
                    /\ Fault
                    /\ mark_sent(id, kind, key, outcome)
                    /\ ContinueCalled(n, id, kind, TRUE)
                    /\ last' = Step("mark_failed", id, kind, key)
                    /\ UNCHANGED << up, running, scheduler >>
                 \/ /\ outcome = "killed"
                    /\ Fault
                    /\ Dies(WriteFile(file, state, outcome))
                    /\ last' = Step("killed_in_mark", id, kind, key)
                    /\ UNCHANGED << lastPersisted, before >>
    /\ UNCHANGED << clock, calendar >>

\* _tick, lines 58-73: one reminder of one event.
RemindStep(n) == ZoneError(n) \/ NotDue(n) \/ SendFails(n) \/ SendsAndMarks(n)

\* _tick, line 78: a naive end_time compared with the aware horizon raises
\* TypeError, which nothing catches.
EndTimeError(n) ==
    /\ ticks[n].pc = "cleanup"
    /\ EventAt(n).tz # "aware"
    /\ Raise(n)
    /\ last' = Step("end_time_error", EventAt(n).id, "", "")
    /\ UNCHANGED << clock, calendar, up, state, file, running, scheduler,
                    delivered, lastPersisted, before, budget >>

\* _tick, line 78 is false: the record, if any, stays.
Keeps(n) ==
    /\ ticks[n].pc = "cleanup"
    /\ EventAt(n).tz = "aware"
    /\ ~Expired(ticks[n].now, EventAt(n))
    /\ Continue(n)
    /\ last' = Step("kept", EventAt(n).id, "", "")
    /\ UNCHANGED << clock, calendar, up, state, file, running, scheduler,
                    delivered, lastPersisted, before, budget >>

\* _tick, lines 78-79: clear_event is called; when its _persist raises, the
\* exception leaves _tick.
Clears(n) ==
    /\ ticks[n].pc = "cleanup"
    /\ EventAt(n).tz = "aware"
    /\ Expired(ticks[n].now, EventAt(n))
    /\ LET id == EventAt(n).id
       IN  IF id \notin DOMAIN state
           THEN /\ clear_event(id, "ok")
                /\ Continue(n)
                /\ last' = Step("clear_absent", id, "", "")
                /\ UNCHANGED << up, running, scheduler, budget >>
           ELSE \E outcome \in PersistOutcomes :
                 \/ /\ outcome = "ok"
                    /\ clear_event(id, outcome)
                    /\ Continue(n)
                    /\ last' = Step("cleared", id, "", "")
                    /\ UNCHANGED << up, running, scheduler, budget >>
                 \/ /\ PersistRaises(outcome)
                    /\ Fault
                    /\ clear_event(id, outcome)
                    /\ Raise(n)
                    /\ last' = Step("clear_failed", id, "", "")
                    /\ UNCHANGED << up, running, scheduler >>
                 \/ /\ outcome = "killed"
                    /\ Fault
                    /\ Dies(WriteFile(file, state, outcome))
                    /\ last' = Step("killed_in_clear", id, "", "")
                    /\ UNCHANGED << lastPersisted, before >>
    /\ UNCHANGED << clock, calendar, delivered >>

\* _tick, lines 77-79: the cleanup of one event.
CleanupStep(n) == EndTimeError(n) \/ Keeps(n) \/ Clears(n)

Next ==
    \/ Startup
    \/ Start
    \/ Stop
    \/ IntervalFire
    \/ \E n \in 1..Len(ticks) : Fetch(n)
    \/ \E n \in 1..Len(ticks) : RemindStep(n)
    \/ \E n \in 1..Len(ticks) : CleanupStep(n)
    \/ ClockAdvance
    \/ CalendarUpdate
    \/ Kill

Spec == Init /\ [][Next]_vars

(***************************************************************************)
(* The engine left running: the interval keeps firing, every fetch that    *)
(* succeeds returns both events, no event is edited, and the process is    *)
(* neither stopped nor killed.  The scheduler fires the job at every       *)
(* interval and the thread of an execution runs on, hence the weak         *)
(* fairness of the steps; the failures are those of the fault budget, so   *)
(* that fetches, sends and writes succeed in the end.                      *)
(***************************************************************************)
IntervalFireForever ==
    /\ Fires
    /\ UNCHANGED budget

FetchAll(n) == FetchFails(n) \/ FetchesFrom(n, {Events})

\* The steps of the loops that leave the process alive.
RemindAlive(n) == RemindStep(n) /\ up'

CleanupAlive(n) == CleanupStep(n) /\ up'

NextLive ==
    \/ Startup
    \/ IntervalFireForever
    \/ \E n \in 1..Len(ticks) : FetchAll(n)
    \/ \E n \in 1..Len(ticks) : RemindAlive(n)
    \/ \E n \in 1..Len(ticks) : CleanupAlive(n)
    \/ ClockAdvance

SpecLive ==
    /\ Init
    /\ [][NextLive]_vars
    /\ WF_vars(Startup)
    /\ WF_vars(IntervalFireForever)
    /\ WF_vars(\E n \in 1..Len(ticks) : FetchAll(n))
    /\ WF_vars(\E n \in 1..Len(ticks) : RemindAlive(n))
    /\ WF_vars(\E n \in 1..Len(ticks) : CleanupAlive(n))

(***************************************************************************)
(* The store on its own: a ReminderStateStore constructed on an absent     *)
(* file and called with any arguments, in any order.                       *)
(***************************************************************************)
InitStore ==
    /\ clock = 10
    /\ calendar = CHOOSE c \in Calendars : c["e1"].tz = "aware"
    /\ up = TRUE
    /\ state = LoadFile(NoFile)
    /\ file = NoFile
    /\ running = FALSE
    /\ scheduler = NewScheduler
    /\ ticks = <<>>
    /\ delivered = [t \in SendKeys |-> 0]
    /\ lastPersisted = EmptyMapping
    /\ before = EmptyMapping
    /\ last = Step("init", "", "", "")
    /\ budget = [fires |-> 0, faults |-> 0, updates |-> 0]

\* The arguments the store is called with.
StoreKeys == Events \X Kinds \X { isoformat(s) : s \in Stamps }

StoreHasSent ==
    /\ up
    /\ \E t \in StoreKeys :
          /\ last' = Step(IF has_sent(t[1], t[2], t[3]) THEN "has_sent_true" ELSE "has_sent_false",
                          t[1], t[2], t[3])
          /\ state' = HasSentMem(state, t[1], t[2], t[3])
    /\ UNCHANGED << clock, calendar, up, file, running, scheduler, ticks,
                    delivered, lastPersisted, before, budget >>

StoreMarkSent ==
    /\ up
    /\ \E t \in StoreKeys, outcome \in PersistOutcomes \ {"killed"} :
          /\ IF PersistRaises(outcome) THEN Fault ELSE UNCHANGED budget
          /\ mark_sent(t[1], t[2], t[3], outcome)
          /\ last' = Step(IF PersistRaises(outcome) THEN "mark_sent_raised" ELSE "mark_sent",
                          t[1], t[2], t[3])
    /\ UNCHANGED << clock, calendar, up, running, scheduler, ticks, delivered >>

StoreClearEvent ==
    /\ up
    /\ \E e \in Events, outcome \in PersistOutcomes \ {"killed"} :
          /\ IF PersistRaises(outcome) /\ e \in DOMAIN state THEN Fault ELSE UNCHANGED budget
          /\ clear_event(e, outcome)
          /\ last' = Step(IF PersistRaises(outcome) /\ e \in DOMAIN state
                          THEN "clear_event_raised" ELSE "clear_event", e, "", "")
    /\ UNCHANGED << clock, calendar, up, running, scheduler, ticks, delivered >>

\* ReminderStateStore.__init__ on the file as it is: the process has been
\* started again.  When _load raises there is no store.
StoreReopen ==
    /\ up
    /\ IF LoadRaises(file)
       THEN /\ up' = FALSE
            /\ state' = EmptyMapping
            /\ last' = Step("load_failed", "", "", "")
       ELSE /\ state' = LoadFile(file)
            /\ last' = Step("loaded", "", "", "")
            /\ UNCHANGED up
    /\ UNCHANGED << clock, calendar, file, running, scheduler, ticks,
                    delivered, lastPersisted, before, budget >>

NextStore ==
    \/ StoreHasSent
    \/ StoreMarkSent
    \/ StoreClearEvent
    \/ StoreReopen

SpecStore == InitStore /\ [][NextStore]_vars

(***************************************************************************)
(* C1.  Over any sequence of ticks, with any mix of fetch failures, send   *)
(* failures, version changes, cleanup passes and restarts, the Notifier    *)
(* completes a successful send at most once for each triple (event id,     *)
(* reminder kind, version token).                                          *)
(***************************************************************************)
C1_AtMostOncePerVersion == \A t \in SendKeys : delivered[t] <= 1

(***************************************************************************)
(* C2.  In every persisted snapshot, every kind in the sent list of an     *)
(* event's record was sent successfully for that event under the record's  *)
(* last_updated before the snapshot was written; no kind recorded under an *)
(* earlier version token stays in it.                                      *)
(***************************************************************************)
C2_PersistedSentWasDelivered ==
    file.complete =>
        \A m \in file.doc : \A n \in 1..Len(m[2]) :
            delivered[<<m[1], m[2][n], m[3]>>] >= 1

\* A snapshot holding a record under one version of an event that had a
\* reminder delivered under another version before.
C2_Witness ==
    /\ file.complete
    /\ \E m \in file.doc :
          /\ m[2] # <<>>
          /\ \E k \in Kinds, v \in VersionKeys \ {m[3]} : delivered[<<m[1], k, v>>] >= 1

(***************************************************************************)
(* C3.  If a write of the snapshot is interrupted or fails part-way, the   *)
(* file still holds the complete previous snapshot: a store started        *)
(* afterwards loads exactly the mapping of the last successful persist.    *)
(***************************************************************************)
C3_PreviousSnapshotSurvives ==
    /\ ~LoadRaises(file)
    /\ LoadFile(file) = lastPersisted

(***************************************************************************)
(* C4.  When persistence fails inside mark_sent(e, k, v), the send is not  *)
(* recorded: after the failed call has_sent answers, for every (event,     *)
(* kind, version), what the last successfully persisted snapshot           *)
(* determines.                                                             *)
(***************************************************************************)
C4_FailedMarkNotRecorded ==
    (up /\ last.op = "mark_failed") =>
        \A t \in SendKeys :
            has_sent(t[1], t[2], t[3]) <=> HasSentIn(lastPersisted, t[1], t[2], t[3])

(***************************************************************************)
(* C5.  A tick whose fetch fails has no side effects: no Notifier send, no *)
(* change of the mapping or of the file, and the scheduler keeps running   *)
(* with the execution over, so that the next firing fetches again.         *)
(***************************************************************************)
C5_FetchFailureNoSideEffects ==
    [][ (last'.op = "fetch_failed" /\ budget'.faults > budget.faults) =>
            /\ state' = state
            /\ file' = file
            /\ lastPersisted' = lastPersisted
            /\ delivered' = delivered
            /\ up' = up
            /\ running' = running
            /\ scheduler' = scheduler
            /\ Len(ticks') = Len(ticks) - 1 ]_vars

\* A fetch has failed while the store held records and the job was scheduled.
C5_Witness ==
    /\ last.op = "fetch_failed"
    /\ DOMAIN state # {}
    /\ scheduler.state = "running"
    /\ ticks = <<>>

(***************************************************************************)
(* C6.  When the Notifier fails for a due (event, kind), mark_sent is not  *)
(* called: the store is unchanged, has_sent for that (event, kind,         *)
(* version) is still false, and the tick goes on with the next kind, the   *)
(* next event or the cleanup.                                              *)
(***************************************************************************)
C6_SendFailureNotMarked ==
    [][ (last'.op = "send_failed" /\ budget'.faults > budget.faults) =>
            /\ state' = state
            /\ file' = file
            /\ lastPersisted' = lastPersisted
            /\ delivered' = delivered
            /\ ~HasSentIn(state', last'.id, last'.kind, last'.key)
            /\ Len(ticks') = Len(ticks)
            /\ \E n \in 1..Len(ticks) :
                  /\ ticks[n].pc = "remind"
                  /\ ticks'[n].events = ticks[n].events
                  /\ ticks'[n].now = ticks[n].now
                  /\ IF ticks[n].j < Len(Reminders)
                     THEN /\ ticks'[n].pc = "remind"
                          /\ ticks'[n].i = ticks[n].i
                          /\ ticks'[n].j = ticks[n].j + 1
                     ELSE IF ticks[n].i < Len(ticks[n].events)
                     THEN /\ ticks'[n].pc = "remind"
                          /\ ticks'[n].i = ticks[n].i + 1
                          /\ ticks'[n].j = 1
                     ELSE /\ ticks'[n].pc = "cleanup"
                          /\ ticks'[n].i = 1 ]_vars

\* The send of the first event's last reminder has failed and the tick is at
\* the second event.
C6_Witness ==
    /\ last.op = "send_failed"
    /\ Len(ticks) = 1
    /\ ticks[1].pc = "remind"
    /\ ticks[1].i = 2
    /\ ticks[1].j = 1
    /\ last.id = ticks[1].events[1].id
    /\ ~has_sent(last.id, last.kind, last.key)

(***************************************************************************)
(* C7.  An exception raised while one event of a tick is processed does    *)
(* not keep the events that follow it in the fetched list from being       *)
(* processed: a tick ends by an exception only at the last event.          *)
(***************************************************************************)
C7_EventFailureIsolated ==
    [][ ( /\ last'.op \in {"zone_error", "end_time_error", "clear_failed"}
          /\ Len(ticks') < Len(ticks) ) =>
            \E n \in 1..Len(ticks) : ticks[n].i = Len(ticks[n].events) ]_vars

(***************************************************************************)
(* C8.  At most one execution of the tick is in progress; a firing of the  *)
(* interval while one is running is skipped: it starts no execution then,  *)
(* and none starts later without a new firing.                             *)
(***************************************************************************)
C8_NoOverlapNoQueue ==
    [][ /\ Len(ticks') <= 1
        /\ (budget'.fires > budget.fires /\ Len(ticks) >= 1) =>
               (ticks' = ticks /\ last'.op = "skipped")
        /\ Len(ticks') > Len(ticks) => budget'.fires > budget.fires ]_vars

\* A firing has been skipped while an execution was in its loops.
C8_Witness ==
    /\ last.op = "skipped"
    /\ Len(ticks) = 1
    /\ ticks[1].pc # "fetch"

\* Whether mapping st records kind k for event e under version v.
Recorded(st, e, k, v) ==
    /\ e \in DOMAIN st
    /\ st[e].last_updated = v
    /\ k \in { st[e].sent[n] : n \in 1..Len(st[e].sent) }

(***************************************************************************)
(* C9.  has_sent(event_id, kind, version) answers true exactly when a      *)
(* record exists for event_id, its last_updated equals version and kind is *)
(* in its sent list; it never changes the mapping or the file.             *)
(***************************************************************************)
C9_HasSentIffRecorded ==
    [][ last'.op \in {"has_sent_true", "has_sent_false"} =>
            /\ (last'.op = "has_sent_true") <=> Recorded(state, last'.id, last'.kind, last'.key)
            /\ state' = state
            /\ file' = file ]_vars

\* has_sent has answered false for a kind that is recorded under another version.
C9_Witness ==
    /\ last.op = "has_sent_false"
    /\ last.id \in DOMAIN state
    /\ state[last.id].last_updated # last.key
    /\ Contains(state[last.id].sent, last.kind)

(***************************************************************************)
(* C10.  After a successful mark_sent(e, k, v), from any store state,      *)
(* has_sent(e, k, v) is true and has_sent(e, k, w) is false for every      *)
(* other version w.                                                        *)
(***************************************************************************)
C10_MarkThenHasSent ==
    last.op = "mark_sent" =>
        /\ has_sent(last.id, last.kind, last.key)
        /\ \A w \in VersionKeys \ {last.key} : ~has_sent(last.id, last.kind, w)

\* mark_sent has returned on a store that holds the other event under
\* another version and the other kind of the same event.
C10_Witness ==
    /\ last.op = "mark_sent"
    /\ Len(state[last.id].sent) = 2
    /\ \E e \in DOMAIN state : e # last.id /\ state[e].last_updated # last.key

\* Whether mappings a and b hold the same records for every event but e.
SameButFor(a, b, e) ==
    \A x \in Events \ {e} :
        /\ x \in DOMAIN a <=> x \in DOMAIN b
        /\ x \in DOMAIN a => a[x] = b[x]

(***************************************************************************)
(* C11.  mark_sent(e, k, v) on a store where e's record has a last_updated *)
(* other than v, or where e has no record, leaves e's record exactly       *)
(* {last_updated = v, sent = [k]}: every kind recorded under the old       *)
(* version is dropped, and the record of every other event is unchanged,   *)
(* in memory and in the snapshot written.                                  *)
(***************************************************************************)
C11_VersionChangeResetsOneRecord ==
    ( /\ last.op = "mark_sent"
      /\ IF last.id \in DOMAIN before
         THEN before[last.id].last_updated # last.key
         ELSE TRUE ) =>
        /\ last.id \in DOMAIN state
        /\ state[last.id] = [sent |-> << last.kind >>, last_updated |-> last.key]
        /\ SameButFor(state, before, last.id)
        /\ LoadFile(file) = state

\* mark_sent has returned on a store that held both kinds of the event under
\* another version, and a record of the other event.
C11_Witness ==
    /\ last.op = "mark_sent"
    /\ last.id \in DOMAIN before
    /\ before[last.id].last_updated # last.key
    /\ Len(before[last.id].sent) = 2
    /\ \E x \in DOMAIN before : x # last.id

\* How many times x occurs in seq.
Occurrences(seq, x) == Cardinality({ n \in 1..Len(seq) : seq[n] = x })

(***************************************************************************)
(* C12.  mark_sent is idempotent: a call of mark_sent(e, k, v) that        *)
(* follows a call with the same arguments leaves the mapping in memory and *)
(* the persisted snapshot as the first call left them, and k occurs once   *)
(* in the sent list of e.                                                  *)
(***************************************************************************)
C12_MarkSentIdempotent ==
    [][ ( /\ last.op = "mark_sent"
          /\ last'.op = "mark_sent"
          /\ last'.id = last.id
          /\ last'.kind = last.kind
          /\ last'.key = last.key ) =>
            /\ state' = state
            /\ file' = file
            /\ LoadFile(file') = state'
            /\ Occurrences(state'[last.id].sent, last.kind) = 1 ]_vars

\* A call of mark_sent has found its kind recorded under its version, next
\* to the other kind and to a record of the other event.
C12_Witness ==
    /\ last.op = "mark_sent"
    /\ Recorded(before, last.id, last.kind, last.key)
    /\ before = state
    /\ Len(state[last.id].sent) = 2
    /\ \E x \in DOMAIN state : x # last.id

(***************************************************************************)
(* C13.  clear_event(e) removes e's record when there is one and leaves    *)
(* every other record unchanged; when e has no record it raises nothing    *)
(* and changes neither the mapping in memory nor the persisted snapshot,   *)
(* so that a second clear_event(e) changes nothing.                        *)
(***************************************************************************)
C13_ClearEventRemovesOneRecord ==
    [][ /\ last'.op = "clear_event" =>
              /\ last'.id \notin DOMAIN state'
              /\ SameButFor(state', state, last'.id)
              /\ IF last'.id \in DOMAIN state
                 THEN LoadFile(file') = state'
                 ELSE /\ state' = state
                      /\ file' = file
                      /\ lastPersisted' = lastPersisted
        /\ (last'.op = "clear_event_raised" /\ budget'.faults > budget.faults) =>
              last'.id \in DOMAIN state ]_vars

\* clear_event has returned without finding a record of its event, in a
\* store that holds a record of the other event, persisted.
C13_Witness ==
    /\ last.op = "clear_event"
    /\ last.id \notin DOMAIN before
    /\ before = state
    /\ DOMAIN state # {}
    /\ file = CompleteFile(state)

C16_NoTickBeginsAfterStop ==
    [][ /\ (up /\ ~running) => Len(ticks') <= Len(ticks)
        /\ (up /\ running /\ up' /\ ~running') =>
              /\ ticks' = ticks
              /\ state' = state
              /\ file' = file
              /\ delivered' = delivered ]_vars

\* The engine has been stopped and an execution of the tick is in its
\* cleanup loop, having sent a reminder.
C16_Witness ==
    /\ up
    /\ ~running
    /\ Len(ticks) = 1
    /\ ticks[1].pc = "cleanup"
    /\ last.op = "marked"

(***************************************************************************)
(* C17.  stop() is idempotent: a second call, or a call on an engine that  *)
(* was never started, raises nothing and leaves the engine stopped as one  *)
(* call leaves it.                                                         *)
(***************************************************************************)
C17_StopIdempotent ==
    /\ ~StopRaises(FALSE, NewScheduler)
    /\ stop(FALSE, NewScheduler) = << FALSE, NewScheduler >>
    /\ up =>
          LET once == stop(running, scheduler)
          IN  /\ ~StopRaises(running, scheduler)
              /\ once[1] = FALSE
              /\ once[2].state = "stopped"
              /\ ~StopRaises(once[1], once[2])
              /\ stop(once[1], once[2]) = once

\* The engine of a running process has been stopped.
C17_Witness ==
    /\ up
    /\ ~running
    /\ scheduler.state = "stopped"
    /\ scheduler.jobs = 0

(***************************************************************************)
(* What an execution of the tick has done when it ends, by the return of   *)
(* _tick or by an exception that leaves it.                                *)
(***************************************************************************)
\* Execution n ends in this step, the process living on.
TickEnds(n) == up' /\ ticks' = RemoveAt(ticks, n)

\* The kinds of the Notifier calls execution c made for event id, in order.
CallsFor(c, id) ==
    LET mine == SelectSeq(c.calls, LAMBDA x : x.id = id)
    IN  [m \in 1..Len(mine) |-> mine[m].kind]

\* The Notifier worked throughout execution c.
NotifierWorked(c) == \A m \in 1..Len(c.calls) : c.calls[m].ok

\* The kinds of the schedule whose trigger time has passed at now, in the
\* order of their trigger times.
PastKinds(now, event) ==
    LET past == SelectSeq(Reminders, LAMBDA r : now >= trigger_at(event, r))
    IN  [m \in 1..Len(past) |-> past[m].kind]

\* The set of kinds mapping st records for event e.
SentSet(st, e) ==
    IF e \in DOMAIN st THEN { st[e].sent[m] : m \in 1..Len(st[e].sent) } ELSE {}

(***************************************************************************)
(* C18.  Within one tick the kinds of an event are evaluated earliest      *)
(* trigger first: for an event of the fetched list with both trigger times *)
(* past (now >= start - 10m) and no record in the store, the tick makes    *)
(* exactly two Notifier calls, "2h" and then "10m", and when the tick is   *)
(* over both kinds are recorded under the event's version.                 *)
(***************************************************************************)
C18_BothKindsInOrder ==
    [][ \A n \in 1..Len(ticks) : TickEnds(n) =>
          \A m \in 1..Len(ticks[n].events) :
             LET event == ticks[n].events[m]
             IN  ( /\ ticks[n].now >= event.start_time - TenMinutes
                   /\ event.id \notin DOMAIN ticks[n].seen
                   /\ event.tz # "naive_badzone"
                   /\ NotifierWorked(ticks[n]) ) =>
                     /\ CallsFor(ticks[n], event.id) = << "2h", "10m" >>
                     /\ Recorded(state', event.id, "2h", updated_key(event))
                     /\ Recorded(state', event.id, "10m", updated_key(event)) ]_vars

(***************************************************************************)
(* C19.  A kind is sent in a tick only if now >= start - delta of the      *)
(* kind.  For an event of the fetched list with                            *)
(* start - 2h <= now < start - 10m and no record, a tick with a working    *)
(* Notifier sends exactly "2h"; a tick at the same instant that finds "2h" *)
(* recorded under the event's version makes no Notifier call for the event *)
(* and leaves its recorded kinds as they are.                              *)
(***************************************************************************)
C19_OnlyDueKindsOnce ==
    [][ \A n \in 1..Len(ticks) : TickEnds(n) =>
          \A m \in 1..Len(ticks[n].events) :
             LET event == ticks[n].events[m]
                 now   == ticks[n].now
                 key   == updated_key(event)
             IN  /\ \A q \in 1..Len(Reminders) :
                       Contains(CallsFor(ticks[n], event.id), Reminders[q].kind) =>
                           now >= trigger_at(event, Reminders[q])
                 /\ ( /\ event.start_time - TwoHours <= now
                      /\ now < event.start_time - TenMinutes
                      /\ event.tz # "naive_badzone"
                      /\ NotifierWorked(ticks[n]) ) =>
                        /\ event.id \notin DOMAIN ticks[n].seen =>
                              CallsFor(ticks[n], event.id) = << "2h" >>
                        /\ Recorded(ticks[n].seen, event.id, "2h", key) =>
                              /\ CallsFor(ticks[n], event.id) = << >>
                              /\ SentSet(state', event.id) = SentSet(ticks[n].seen, event.id) ]_vars

(***************************************************************************)
(* C20.  When the version token of an event has changed after "2h" was     *)
(* sent and recorded, the next tick, with a working Notifier, sends every  *)
(* kind whose trigger time has passed under the new version ("2h" again,   *)
(* "10m" if due), and when it is over the record has last_updated equal to *)
(* the new version and exactly the kinds sent in that tick.                *)
(***************************************************************************)
C20_VersionChangeResends ==
    [][ \A n \in 1..Len(ticks) : TickEnds(n) =>
          \A m \in 1..Len(ticks[n].events) :
             LET event == ticks[n].events[m]
                 now   == ticks[n].now
                 key   == updated_key(event)
                 seen  == ticks[n].seen
             IN  ( /\ event.id \in DOMAIN seen
                   /\ IF event.id \in DOMAIN seen
                      THEN /\ seen[event.id].last_updated # key
                           /\ Contains(seen[event.id].sent, "2h")
                      ELSE FALSE
                   /\ now >= event.start_time - TwoHours
                   /\ event.tz # "naive_badzone"
                   /\ NotifierWorked(ticks[n]) ) =>
                     /\ CallsFor(ticks[n], event.id) = PastKinds(now, event)
                     /\ event.id \in DOMAIN state'
                     /\ event.id \in DOMAIN state' => state'[event.id].last_updated = key
                     /\ SentSet(state', event.id)
                          = { PastKinds(now, event)[q] : q \in 1..Len(PastKinds(now, event)) } ]_vars

\* The version key _tick computes for event e as the calendar holds it.
KeyOf(e) == updated_key(calendar[e])

\* This step calls the Notifier for the triple t.
SendAttempt(t) ==
    /\ last'.op \in {"marked", "mark_failed", "send_failed", "killed_in_mark"}
    /\ << last'.id, last'.kind, last'.key >> = t
    /\ \/ delivered' # delivered
       \/ budget' # budget

(***************************************************************************)
(* C15.  Eventual delivery: while the interval keeps firing, an event that *)
(* every fetch returns with an unchanged version token and a kind whose    *)
(* trigger time has passed is, once fetches, sends and writes succeed,     *)
(* sent successfully and recorded; after that no send for that (event,     *)
(* kind, version) is attempted.                                            *)
(***************************************************************************)
C15_EventualDelivery ==
    /\ \A e \in Events : \A q \in 1..Len(Reminders) :
          ( /\ up
            /\ calendar[e].tz # "naive_badzone"
            /\ clock >= trigger_at(calendar[e], Reminders[q]) )
          ~> ( /\ delivered[<< e, Reminders[q].kind, KeyOf(e) >>] >= 1
               /\ Recorded(state, e, Reminders[q].kind, KeyOf(e)) )
    /\ [][ \A t \in SendKeys : delivered[t] >= 1 => ~SendAttempt(t) ]_vars

(***************************************************************************)
(* C21.  At the end of every tick whose fetch succeeded and whose writes   *)
(* of the snapshot succeed, the store holds no record of a fetched event   *)
(* whose end_time is more than 1 hour before the tick's now, a record made *)
(* by the reminder pass of that tick included.                             *)
(***************************************************************************)
C21_ExpiredRecordsGone ==
    [][ \A n \in 1..Len(ticks) :
          ( /\ TickEnds(n)
            /\ ticks[n].pc # "fetch"
            /\ last'.op # "clear_failed" ) =>
              \A m \in 1..Len(ticks[n].events) :
                 LET event == ticks[n].events[m]
                 IN  event.end_time < ticks[n].now - HorizonMinutes =>
                         event.id \notin DOMAIN state' ]_vars

(***************************************************************************)
(* C22.  The cleanup pass of a tick removes only records of events that    *)
(* are in the list the tick fetched and whose end_time is more than 1 hour *)
(* before its now: the record of an event that is not in the list, or of a *)
(* fetched event that ended 1 hour ago or less or has not ended, is not    *)
(* removed by the tick.                                                    *)
(***************************************************************************)
C22_CleanupRemovesOnlyExpiredFetched ==
    [][ \A e \in Events :
          (up' /\ e \in DOMAIN state /\ e \notin DOMAIN state') =>
             \E n \in 1..Len(ticks) :
                /\ ticks[n].pc = "cleanup"
                /\ ticks[n].events[ticks[n].i].id = e
                /\ ticks[n].events[ticks[n].i].end_time < ticks[n].now - HorizonMinutes ]_vars

\* The cleanup pass has removed the record of the event that ended more than
\* 1 hour ago and has kept, at the end of the tick, the record of the event
\* that ended 1 hour ago.
C22_Witness ==
    /\ up
    /\ last.op = "kept"
    /\ ticks = << >>
    /\ before # state
    /\ DOMAIN before = Events
    /\ \E e \in Events :
          /\ DOMAIN state = {e}
          /\ state[e] = before[e]
          /\ calendar[e].end_time = clock - HorizonMinutes

\* Every record of mapping st has a non-empty sent list of configured kinds,
\* one of them sent successfully under the record's version.
RecordsAreOfSends(st) ==
    \A e \in DOMAIN st :
        /\ st[e].sent # << >>
        /\ SentSet(st, e) \subseteq Kinds
        /\ \E k \in SentSet(st, e) : delivered[<< e, k, st[e].last_updated >>] >= 1

(***************************************************************************)
(* C23.  In a store that starts empty and is changed only by the engine,   *)
(* the sent list of every record is a non-empty subset of the configured   *)
(* kinds {"2h", "10m"}: an event has a record only if a reminder for it    *)
(* was sent successfully, and no operation leaves a record with an empty   *)
(* sent list, in memory or in a snapshot written.                          *)
(***************************************************************************)
C23_RecordsNeverEmpty ==
    /\ RecordsAreOfSends(state)
    /\ file.complete => RecordsAreOfSends(LoadFile(file))

\* mark_sent has reset the record of an event whose version changed: the
\* record held both kinds under the old version and holds one under the new.
C23_Witness ==
    /\ up
    /\ last.op = "marked"
    /\ last.id \in DOMAIN before
    /\ last.id \in DOMAIN state
    /\ before[last.id].last_updated # last.key
    /\ Len(before[last.id].sent) = 2
    /\ state[last.id] = [sent |-> << last.kind >>, last_updated |-> last.key]

(***************************************************************************)
(* C24.  start() is idempotent while the engine is running: a second       *)
(* start() without a stop() in between registers no second polling job, so *)
(* that after any number of calls the scheduler holds one job and a firing *)
(* of the interval starts at most one tick.                                *)
(***************************************************************************)
C24_StartIdempotent ==
    /\ scheduler.jobs <= 1
    /\ (up /\ running) =>
          /\ scheduler.jobs = 1
          /\ start(running, scheduler) = << running, scheduler >>
    /\ LET once == start(FALSE, NewScheduler)
       IN  /\ once[2].jobs = 1
           /\ start(once[1], once[2]) = once

\* The engine of a running process has been started and an execution of its
\* one job is in progress.
C24_Witness ==
    /\ up
    /\ running
    /\ scheduler.state = "running"
    /\ scheduler.jobs = 1
    /\ Len(ticks) = 1

==========================================================================
